---- MODULE Spec2Model ----
(***************************************************************************)
(* A model of the telemetry collector of system-monitor                    *)
(* (src/src/collector.rs) and of the request handler that calls it         *)
(* (src/src/main.rs).  Each probe of collect_stats is modelled with the    *)
(* inputs it reads from the operating system drawn from small sets.        *)
(***************************************************************************)
EXTENDS Integers, Sequences, FiniteSets, TLC

VARIABLES
    \* ---- GPU probe chain (collect_gpu_info) ----
    nvml,        \* what the NVML library answers: "InitErr", "DeviceErr", "MemoryInfoErr", "Ok"
    sysfsDrm,    \* what exists under /sys/class/drm: "none", "card0" (card0 without device), "device"
    drmChanged,  \* history: /sys/class/drm changed while collect_gpu_info was running
    gpuPc,       \* the probe collect_gpu_info runs next: "nvidia", "amd", "intel", or "done"
    gpuProbes,   \* history: the probes consulted so far, with what each saw and returned
    gpu          \* the Option<GpuInfo> returned, by vendor: "None", "NVIDIA", "AMD", "Intel"

VARIABLES
    \* ---- process ranking (collect_process_info) ----
    processTable, \* sys.processes() in enumeration order: the cpu_usage (an f32) of each
    procPc,       \* "start", "returned", or "panicked" (the comparator's unwrap failed)
    processes     \* the Vec<ProcessInfo> returned

VARIABLES
    \* ---- network rates (collect_network_advanced) ----
    netIfaces,         \* the cumulative byte counters of each interface: [rx, tx]
    clock,             \* the monotonic clock Instant::now() reads, in seconds
    overflowChecks,    \* the build checks integer overflow (a debug build) or wraps (a release build)
    LAST_NETWORK_DATA, \* the static: [some, rx, tx, time]
    netPc,             \* the place of each caller in collect_network_advanced
    netLocal,          \* the locals of each caller: total_received, total_transmitted, last, now,
                       \* and (history) the bytes all interfaces had counted when enumerated
    netOut,            \* (download_speed_mbps, upload_speed_mbps) each caller's last call returned
    netCalls           \* the calls started so far

VARIABLES
    \* ---- memory and disks (collect_stats) ----
    memTotal,             \* sys.total_memory(), in MiB
    memUsed,              \* sys.used_memory(), in MiB
    diskSpaces,           \* Disks::new_with_refreshed_list(): [total, available] of each disk, in MiB
    resPc,                \* "start" or "done"
    memory_usage_percent, \* ResourceBlock.memory_usage_percent
    disk_infos            \* the DiskInfo of each disk: total_gb, used_gb, usage_percent

VARIABLES
    \* ---- hardware sensors (collect_hardware_sensors) ----
    hwmon,        \* /sys/class/hwmon: [readable, entries], each entry the text of its files
    thermalZone,  \* the text of /sys/class/thermal/thermal_zone0/temp, if it can be read
    sensPc,       \* "start" or "done"
    sensors       \* the HardwareSensors returned

VARIABLES
    \* ---- the server (main.rs): GET /api/stats on the runtime's worker threads ----
    reqPc,       \* the place of each request in get_stats
    reqAuth,     \* the Authorization header of each request
    workerTask   \* the request each worker thread is polling, 0 when it is free

VARIABLES
    \* ---- the AMD clock table (collect_amd_gpu) ----
    sclkTable,      \* (history) the levels the driver lists: [freq, unit, active] each
    pp_dpm_sclk,    \* the text of /sys/class/drm/card0/device/pp_dpm_sclk, if it can be read
    sclkPc,         \* "start" or "done"
    core_clock_mhz  \* GpuInfo.core_clock_mhz

VARIABLES
    \* ---- the battery (collect_battery_info) ----
    batteryManager, \* what the OS power interface answers: "NoManager", "NoList", or the
                    \* sequence of batteries it iterates, each "Err" or [state, time_to_empty]
    battPc,         \* "start" or "done"
    battery         \* the Option<BatteryInfo> returned

VARIABLES
    \* ---- one call of collect_stats, statement by statement ----
    sources,     \* which sources the OS can serve: "os" (process table and memory), "gpu", ...
    collectPc,   \* the index in CollectSteps of the next statement
    sysEvents,   \* (history) the calls made so far on the System object and the clock
    snapshot     \* the outcome: [kind, cpu_usage, memory_total, processes, gpu, disks, ...]

gpuVars == <<nvml, sysfsDrm, drmChanged, gpuPc, gpuProbes, gpu>>
procVars == <<processTable, procPc, processes>>

netVars == <<netIfaces, clock, overflowChecks, LAST_NETWORK_DATA, netPc, netLocal, netOut, netCalls>>

resVars == <<memTotal, memUsed, diskSpaces, resPc, memory_usage_percent, disk_infos>>
sensVars == <<hwmon, thermalZone, sensPc, sensors>>

srvVars == <<reqPc, reqAuth, workerTask>>
battVars == <<batteryManager, battPc, battery>>
sclkVars == <<sclkTable, pp_dpm_sclk, sclkPc, core_clock_mhz>>
collectVars == <<sources, collectPc, sysEvents, snapshot>>

vars == <<gpuVars, procVars, netVars, resVars, sensVars, srvVars, battVars, collectVars, sclkVars>>

\* What each probe leaves alone: the state of the other probes.
probeVars == <<gpuVars, procVars, resVars, sensVars, battVars, collectVars, sclkVars>>
notGpu == <<procVars, netVars, resVars, sensVars, srvVars, battVars, collectVars, sclkVars>>
notProc == <<gpuVars, netVars, resVars, sensVars, srvVars, battVars, collectVars, sclkVars>>
notNet == <<gpuVars, procVars, resVars, sensVars, srvVars, battVars, collectVars, sclkVars>>
notRes == <<gpuVars, procVars, netVars, sensVars, srvVars, battVars, collectVars, sclkVars>>
notSens == <<gpuVars, procVars, netVars, resVars, srvVars, battVars, collectVars, sclkVars>>
notBatt == <<gpuVars, procVars, netVars, resVars, sensVars, srvVars, collectVars, sclkVars>>
notCollect == <<gpuVars, procVars, netVars, resVars, sensVars, srvVars, battVars, sclkVars>>
notSclk == <<gpuVars, procVars, netVars, resVars, sensVars, srvVars, battVars, collectVars>>

\* Option<T>
None == [some |-> FALSE]
Some(x) == [some |-> TRUE, v |-> x]

Min(a, b) == IF a < b THEN a ELSE b
Abs(x) == IF x < 0 THEN -x ELSE x

RECURSIVE Gcd(_, _)
Gcd(a, b) == IF b = 0 THEN a ELSE Gcd(b, a % b)

\* An f64 or f32 kept exact: the fraction n / d in lowest terms with d > 0, or
\* d = 0 for the result of a division by zero (not-a-number or an infinity).
Frac(n, d) ==
    IF d = 0 THEN [n |-> n, d |-> 0]
    ELSE LET g == Gcd(Abs(n), Abs(d))
             sgn == IF d < 0 THEN -1 ELSE 1
         IN  [n |-> sgn * (n \div g), d |-> sgn * (d \div g)]
FSub(a, b) == Frac(a.n * b.d - b.n * a.d, a.d * b.d)
FMul(a, b) == Frac(a.n * b.n, a.d * b.d)
FDiv(a, b) == Frac(a.n * b.d, a.d * b.n)
FPositive(a) == a.d > 0 /\ a.n > 0

(***************************************************************************)
(* GPU probe chain                                                         *)
(***************************************************************************)

NvmlAnswers == {"InitErr", "DeviceErr", "MemoryInfoErr", "Ok"}
DrmTrees == {"none", "card0", "device"}

\* Nvml::init, device_by_index(0) and memory_info().ok()? must all succeed.
collect_nvidia_gpu(lib) == IF lib = "Ok" THEN "NVIDIA" ELSE "None"

\* An AMD probe that does not activate on the device path alone.
collect_amd_gpu_NotOnPathAlone(tree) == "None"

\* The only activation condition is that /sys/class/drm/card0/device exists;
\* every file read after it has a default.
collect_amd_gpu(tree) == IF tree # "device" THEN "None" ELSE "AMD"

\* /sys/class/drm/card0 must exist, and then /sys/class/drm/card0/device.
collect_intel_gpu(tree) ==
    IF tree = "none" THEN "None"
    ELSE IF tree # "device" THEN "None"
    ELSE "Intel"

\* A chain that goes on to the next probe after a success.
NextProbe_NoShortCircuit(probe, info) ==
    CASE probe = "nvidia" -> "amd"
      [] probe = "amd" -> "intel"
      [] OTHER -> "done"

\* collect_gpu_info: `return Some(info)` after a success, the next probe after a
\* failure, `None` after the last.
NextProbe(probe, info) ==
    IF info # "None" THEN "done"
    ELSE CASE probe = "nvidia" -> "amd"
           [] probe = "amd" -> "intel"
           [] OTHER -> "done"

GpuStep(probe, info) ==
    /\ gpuProbes' = Append(gpuProbes, [probe |-> probe, saw |-> sysfsDrm, info |-> info])
    /\ gpu' = IF info # "None" THEN info ELSE gpu
    /\ gpuPc' = NextProbe(probe, info)
    /\ UNCHANGED <<nvml, sysfsDrm, drmChanged, notGpu>>

ProbeNvidia ==
    /\ gpuPc = "nvidia"
    /\ GpuStep("nvidia", collect_nvidia_gpu(nvml))

ProbeAmd ==
    /\ gpuPc = "amd"
    /\ GpuStep("amd", collect_amd_gpu(sysfsDrm))

ProbeIntel ==
    /\ gpuPc = "intel"
    /\ GpuStep("intel", collect_intel_gpu(sysfsDrm))

\* The environment: a DRM driver binds or unbinds while the chain is running.
DrmChange ==
    /\ gpuPc # "done"
    /\ \E t \in DrmTrees \ {sysfsDrm} : sysfsDrm' = t
    /\ drmChanged' = TRUE
    /\ UNCHANGED <<nvml, gpuPc, gpuProbes, gpu, notGpu>>

GpuInit ==
    /\ nvml \in NvmlAnswers
    /\ sysfsDrm \in DrmTrees
    /\ drmChanged = FALSE
    /\ gpuPc = "nvidia"
    /\ gpuProbes = <<>>
    /\ gpu = "None"

\* No collect_gpu_info call in progress.
GpuOff ==
    /\ nvml = "InitErr"
    /\ sysfsDrm = "none"
    /\ drmChanged = FALSE
    /\ gpuPc = "done"
    /\ gpuProbes = <<>>
    /\ gpu = "None"

GpuNext == ProbeNvidia \/ ProbeAmd \/ ProbeIntel \/ DrmChange

(***************************************************************************)
(* Process ranking                                                         *)
(***************************************************************************)

MaxProcs == 11

\* An f32: a number or not-a-number.
F32(x) == [nan |-> FALSE, v |-> x]
NaN == [nan |-> TRUE, v |-> 0]
CpuUsages == {F32(0), F32(5)}

\* f32::partial_cmp: None when either side is not-a-number.
partial_cmp(a, b) ==
    IF a.nan \/ b.nan THEN "None"
    ELSE IF a.v < b.v THEN "Less"
    ELSE IF a.v > b.v THEN "Greater"
    ELSE "Equal"

\* A comparator that orders ascending.
by_cpu_usage_ascending(a, b) == partial_cmp(a.cpu_usage, b.cpu_usage)

\* The closure given to sort_by, before its unwrap: |a, b| b.cpu_usage.partial_cmp(&a.cpu_usage)
by_cpu_usage(a, b) == partial_cmp(b.cpu_usage, a.cpu_usage)

\* The outcome of a computation that may panic.
Panicked == [panic |-> TRUE, v |-> <<>>]
Returned(x) == [panic |-> FALSE, v |-> x]

\* An insertion that moves x left past the elements it is equal to as well.
RECURSIVE insert_tail_PastEquals(_, _)
insert_tail_PastEquals(sorted, x) ==
    IF sorted = <<>> THEN Returned(<<x>>)
    ELSE LET n == Len(sorted)
             c == by_cpu_usage(x, sorted[n])
         IN  IF c = "None" THEN Panicked
             ELSE IF c \in {"Less", "Equal"}
                  THEN LET r == insert_tail_PastEquals(SubSeq(sorted, 1, n - 1), x)
                       IN  IF r.panic THEN r ELSE Returned(Append(r.v, sorted[n]))
                  ELSE Returned(Append(sorted, x))

\* One insertion of the stable insertion sort slice::sort_by runs on a slice of
\* at most 20 elements: x moves left past every element it is Less than.  The
\* comparator's unwrap panics on None.
RECURSIVE insert_tail(_, _)
insert_tail(sorted, x) ==
    IF sorted = <<>> THEN Returned(<<x>>)
    ELSE LET n == Len(sorted)
             c == by_cpu_usage(x, sorted[n])
         IN  IF c = "None" THEN Panicked
             ELSE IF c = "Less"
                  THEN LET r == insert_tail(SubSeq(sorted, 1, n - 1), x)
                       IN  IF r.panic THEN r ELSE Returned(Append(r.v, sorted[n]))
                  ELSE Returned(Append(sorted, x))

RECURSIVE sort_prefix(_, _)
sort_prefix(v, n) ==
    IF n = 0 THEN Returned(<<>>)
    ELSE LET r == sort_prefix(v, n - 1)
         IN  IF r.panic THEN r ELSE insert_tail(r.v, v[n])

sort_by(v) == sort_prefix(v, Len(v))

\* Vec::truncate
truncate(v, n) == SubSeq(v, 1, Min(Len(v), n))

\* processes.truncate(10)
TopN == 10

\* The ProcessInfo of each entry of the table; the pid is the entry's place in
\* the enumeration.
ProcessInfos == [i \in 1..Len(processTable) |-> [pid |-> i, cpu_usage |-> processTable[i]]]

collect_process_info ==
    /\ procPc = "start"
    /\ LET r == sort_by(ProcessInfos)
       IN  IF r.panic
           THEN procPc' = "panicked" /\ processes' = <<>>
           ELSE procPc' = "returned" /\ processes' = truncate(r.v, TopN)
    /\ UNCHANGED <<processTable, notProc>>

\* The environment: a process starts before the table is read.  At most one
\* process of the table reports a not-a-number usage.
ProcessStarts ==
    /\ procPc = "start"
    /\ Len(processTable) < MaxProcs
    /\ \E u \in CpuUsages \cup {NaN} :
          /\ u.nan => \A i \in 1..Len(processTable) : ~processTable[i].nan
          /\ processTable' = Append(processTable, u)
    /\ UNCHANGED <<procPc, processes, notProc>>

ProcInit ==
    /\ processTable = <<>>
    /\ procPc = "start"
    /\ processes = <<>>

ProcOff ==
    /\ processTable = <<>>
    /\ procPc = "returned"
    /\ processes = <<>>

ProcNext == collect_process_info \/ ProcessStarts

(***************************************************************************)
(* Network rates                                                           *)
(*                                                                         *)
(* collect_network_advanced reads and writes the static LAST_NETWORK_DATA  *)
(* with no lock.  A call is modelled in the steps between which another    *)
(* thread can touch the static: the enumeration of the interfaces, the     *)
(* load of the static, the computation, and the store, which writes the    *)
(* two counters and then the Instant (whose niche holds the Option's tag). *)
(***************************************************************************)

NumCallers == 2
MaxCalls == 3
MaxTraffic == 3
MaxClock == 2

Ifaces == {"eth0", "wlan0"}
Callers == 1..NumCallers

\* The bytes one burst of traffic adds to a counter.
ByteSteps == {500000}

RECURSIVE SumOver(_, _)
SumOver(S, f) ==
    IF S = {} THEN 0
    ELSE LET x == CHOOSE y \in S : TRUE IN f[x] + SumOver(S \ {x}, f)

\* received_mb: data.total_received() / 1024 / 1024, and the sum of them.
received_mb(ifaces) == [i \in DOMAIN ifaces |-> (ifaces[i].rx \div 1024) \div 1024]
transmitted_mb(ifaces) == [i \in DOMAIN ifaces |-> (ifaces[i].tx \div 1024) \div 1024]
total_received(ifaces) == SumOver(DOMAIN ifaces, received_mb(ifaces))
total_transmitted(ifaces) == SumOver(DOMAIN ifaces, transmitted_mb(ifaces))

\* A u64 subtraction as the build compiles it: a - b when it fits, else a panic
\* (overflow checks on) or the wrapped value 2^64 + (a - b), kept as the flag
\* and the negative offset.
u64_sub(a, b, checks) ==
    IF a >= b THEN [panic |-> FALSE, wrapped |-> FALSE, v |-> a - b]
    ELSE IF checks THEN [panic |-> TRUE, wrapped |-> FALSE, v |-> 0]
    ELSE [panic |-> FALSE, wrapped |-> TRUE, v |-> a - b]

\* An f64 rate, kept exact as the fraction n / d (plus 2^64 * 8 / d when the
\* difference wrapped).
Rate(n, d, wrapped) == [n |-> n, d |-> d, wrapped |-> wrapped]
ZeroRate == Rate(0, 1, FALSE)

\* delta as f64 / duration * 8.0 / 1000.0
speed_mbps(delta, duration) == Rate(delta.v * 8, duration * 1000, delta.wrapped)

\* Instant::duration_since saturates at zero.
duration_since(now, earlier) == IF now >= earlier THEN now - earlier ELSE 0

NoBaseline == [some |-> FALSE, rx |-> 0, tx |-> 0, time |-> 0]
Baseline(rx, tx, t) == [some |-> TRUE, rx |-> rx, tx |-> tx, time |-> t]

NoLocals == [total_received |-> 0, total_transmitted |-> 0, last |-> NoBaseline, now |-> 0,
             rx_bytes |-> 0, tx_bytes |-> 0]

\* A first call that stores nothing.
FirstCall_NoStore(l, now) ==
    [pc |-> "returned", out |-> <<ZeroRate, ZeroRate>>, now |-> now]

\* The else branch of `if let Some(..) = LAST_NETWORK_DATA`: store Some((totals, now)), report (0.0, 0.0).
FirstCall(l, now) ==
    [pc |-> "store", out |-> <<ZeroRate, ZeroRate>>, now |-> now]

\* A Some branch that divides by the elapsed time whatever it is.
LaterCall_Unguarded(l, now, checks) ==
    LET duration == duration_since(now, l.last.time)
        drx == u64_sub(l.total_received, l.last.rx, checks)
        dtx == u64_sub(l.total_transmitted, l.last.tx, checks)
    IN  IF drx.panic \/ dtx.panic
        THEN [pc |-> "panicked", out |-> <<ZeroRate, ZeroRate>>, now |-> now]
        ELSE [pc |-> "store", out |-> <<speed_mbps(drx, duration), speed_mbps(dtx, duration)>>,
              now |-> now]

\* The Some branch: the rates against the baseline read, when time has passed.
LaterCall(l, now, checks) ==
    LET duration == duration_since(now, l.last.time)
        drx == u64_sub(l.total_received, l.last.rx, checks)
        dtx == u64_sub(l.total_transmitted, l.last.tx, checks)
    IN  IF duration > 0
        THEN IF drx.panic \/ dtx.panic
             THEN [pc |-> "panicked", out |-> <<ZeroRate, ZeroRate>>, now |-> now]
             ELSE [pc |-> "store", out |-> <<speed_mbps(drx, duration), speed_mbps(dtx, duration)>>,
                   now |-> now]
        ELSE [pc |-> "returned", out |-> <<ZeroRate, ZeroRate>>, now |-> now]

\* Lines 461-474: enumerate the interfaces and sum their counters.
NetEnumerate(c) ==
    /\ netPc[c] \in {"idle", "returned"}
    /\ netCalls < MaxCalls
    /\ netCalls' = netCalls + 1
    /\ netPc' = [netPc EXCEPT ![c] = "enumerated"]
    /\ netLocal' = [netLocal EXCEPT ![c] =
            [NoLocals EXCEPT !.total_received = total_received(netIfaces),
                             !.total_transmitted = total_transmitted(netIfaces),
                             !.rx_bytes = SumOver(Ifaces, [i \in Ifaces |-> netIfaces[i].rx]),
                             !.tx_bytes = SumOver(Ifaces, [i \in Ifaces |-> netIfaces[i].tx])]]
    /\ UNCHANGED <<netIfaces, clock, overflowChecks, LAST_NETWORK_DATA, netOut>>

\* Line 477: the load of the static.
NetLoad(c) ==
    /\ netPc[c] = "enumerated"
    /\ netPc' = [netPc EXCEPT ![c] = "loaded"]
    /\ netLocal' = [netLocal EXCEPT ![c].last = LAST_NETWORK_DATA]
    /\ UNCHANGED <<netIfaces, clock, overflowChecks, LAST_NETWORK_DATA, netOut, netCalls>>

\* Lines 478-494 up to the store: Instant::now() and the rates.
NetCompute(c) ==
    /\ netPc[c] = "loaded"
    /\ LET r == IF netLocal[c].last.some
                THEN LaterCall(netLocal[c], clock, overflowChecks)
                ELSE FirstCall(netLocal[c], clock)
       IN  /\ netPc' = [netPc EXCEPT ![c] = r.pc]
           /\ netLocal' = [netLocal EXCEPT ![c].now = r.now]
           /\ netOut' = [netOut EXCEPT ![c] = r.out]
    /\ UNCHANGED <<netIfaces, clock, overflowChecks, LAST_NETWORK_DATA, netCalls>>

\* Lines 485 and 491: the store of the two counters ...
NetStoreCounters(c) ==
    /\ netPc[c] = "store"
    /\ netPc' = [netPc EXCEPT ![c] = "store_time"]
    /\ LAST_NETWORK_DATA' = [LAST_NETWORK_DATA EXCEPT !.rx = netLocal[c].total_received,
                                                      !.tx = netLocal[c].total_transmitted]
    /\ UNCHANGED <<netIfaces, clock, overflowChecks, netLocal, netOut, netCalls>>

\* ... and of the Instant, with the tag Some.
NetStoreTime(c) ==
    /\ netPc[c] = "store_time"
    /\ netPc' = [netPc EXCEPT ![c] = "returned"]
    /\ LAST_NETWORK_DATA' = [LAST_NETWORK_DATA EXCEPT !.some = TRUE, !.time = netLocal[c].now]
    /\ UNCHANGED <<netIfaces, clock, overflowChecks, netLocal, netOut, netCalls>>

TrafficSoFar ==
    SumOver(Ifaces, [i \in Ifaces |-> netIfaces[i].rx + netIfaces[i].tx])

\* The environment: an interface receives or transmits; counters only grow.
NetTraffic ==
    /\ \E i \in Ifaces, b \in ByteSteps, dir \in {"rx", "tx"} :
          /\ TrafficSoFar + b <= MaxTraffic * b
          /\ netIfaces' = [netIfaces EXCEPT ![i] =
                IF dir = "rx" THEN [@ EXCEPT !.rx = @ + b] ELSE [@ EXCEPT !.tx = @ + b]]
    /\ UNCHANGED <<clock, overflowChecks, LAST_NETWORK_DATA, netPc, netLocal, netOut, netCalls, notNet>>

\* The environment: an interface is removed or its driver restarts, and what
\* it had counted no longer counts in the totals.
NetCounterReset ==
    /\ \E i \in Ifaces :
          /\ netIfaces[i].rx + netIfaces[i].tx > 0
          /\ netIfaces' = [netIfaces EXCEPT ![i] = [rx |-> 0, tx |-> 0]]
    /\ UNCHANGED <<clock, overflowChecks, LAST_NETWORK_DATA, netPc, netLocal, netOut, netCalls, notNet>>

\* The environment: a second passes.
Tick ==
    /\ clock < MaxClock
    /\ clock' = clock + 1
    /\ UNCHANGED <<netIfaces, overflowChecks, LAST_NETWORK_DATA, netPc, netLocal, netOut, netCalls, notNet>>

NetInit ==
    /\ netIfaces = [i \in Ifaces |-> [rx |-> 0, tx |-> 0]]
    /\ clock = 0
    /\ overflowChecks \in BOOLEAN
    /\ LAST_NETWORK_DATA = NoBaseline
    /\ netPc = [c \in Callers |-> "idle"]
    /\ netLocal = [c \in Callers |-> NoLocals]
    /\ netOut = [c \in Callers |-> <<ZeroRate, ZeroRate>>]
    /\ netCalls = 0

NetOff ==
    /\ netIfaces = [i \in Ifaces |-> [rx |-> 0, tx |-> 0]]
    /\ clock = 0
    /\ overflowChecks = FALSE
    /\ LAST_NETWORK_DATA = NoBaseline
    /\ netPc = [c \in Callers |-> "idle"]
    /\ netLocal = [c \in Callers |-> NoLocals]
    /\ netOut = [c \in Callers |-> <<ZeroRate, ZeroRate>>]
    /\ netCalls = 0

(***************************************************************************)
(* Memory and disks: the usage percentages of collect_stats                *)
(***************************************************************************)

MaxDisks == 2

\* Sizes are counted in MiB; 1024 of them make the GiB the code divides down to.
MemorySizes == {0, 4096, 8192, 16384}
DiskSizes == {0, 100, 250}

\* x as f64 / 1024.0 / 1024.0 / 1024.0, for x bytes
to_gb(mib) == Frac(mib, 1024)

\* A percentage with no test of the total.
usage_percent_unguarded(used, total) == FMul(FDiv(used, total), Frac(100, 1))

\* if total > 0.0 { (used / total) * 100.0 } else { 0.0 }
usage_percent(used, total) ==
    IF FPositive(total) THEN FMul(FDiv(used, total), Frac(100, 1)) ELSE Frac(0, 1)

\* Lines 186-201: the DiskInfo of one disk.
disk_info(disk) ==
    LET total == to_gb(disk.total)
        available == to_gb(disk.available)
        used == FSub(total, available)
    IN  [total_gb |-> total, used_gb |-> used, usage_percent |-> usage_percent(used, total)]

\* Lines 167-174 and 183-202 of collect_stats.
collect_memory_and_disks ==
    /\ resPc = "start"
    /\ resPc' = "done"
    /\ memory_usage_percent' = usage_percent(to_gb(memUsed), to_gb(memTotal))
    /\ disk_infos' = [i \in 1..Len(diskSpaces) |-> disk_info(diskSpaces[i])]
    /\ UNCHANGED <<memTotal, memUsed, diskSpaces, notRes>>

DiskStates == {d \in [total : DiskSizes, available : DiskSizes] : d.available <= d.total}

\* The environment: a volume is mounted before the disks are listed.
DiskMounts ==
    /\ resPc = "start"
    /\ Len(diskSpaces) < MaxDisks
    /\ \E d \in DiskStates : diskSpaces' = Append(diskSpaces, d)
    /\ UNCHANGED <<memTotal, memUsed, resPc, memory_usage_percent, disk_infos, notRes>>

ResInit ==
    /\ memTotal \in MemorySizes
    /\ memUsed \in {u \in MemorySizes : u <= memTotal}
    /\ diskSpaces = <<>>
    /\ resPc = "start"
    /\ memory_usage_percent = Frac(0, 1)
    /\ disk_infos = <<>>

ResOff ==
    /\ memTotal = 0
    /\ memUsed = 0
    /\ diskSpaces = <<>>
    /\ resPc = "done"
    /\ memory_usage_percent = Frac(0, 1)
    /\ disk_infos = <<>>

ResNext == collect_memory_and_disks \/ DiskMounts

(***************************************************************************)
(* Hardware sensors                                                        *)
(***************************************************************************)

MaxHwmon == 2

\* Texts, as sequences of characters.
Whitespace == {" ", "\n", "\t"}
Digits == <<"0", "1", "2", "3", "4", "5", "6", "7", "8", "9">>
IsDigit(ch) == \E i \in 1..10 : Digits[i] = ch
DigitValue(ch) == (CHOOSE i \in 1..10 : Digits[i] = ch) - 1

RECURSIVE trim_start(_)
trim_start(s) ==
    IF s # <<>> /\ s[1] \in Whitespace THEN trim_start(Tail(s)) ELSE s
RECURSIVE trim_end(_)
trim_end(s) ==
    IF s # <<>> /\ s[Len(s)] \in Whitespace THEN trim_end(SubSeq(s, 1, Len(s) - 1)) ELSE s
\* str::trim
trim(s) == trim_end(trim_start(s))

\* str::contains
contains(s, sub) ==
    \E i \in 1..(Len(s) - Len(sub) + 1) : SubSeq(s, i, i + Len(sub) - 1) = sub

RECURSIVE DecimalValue(_)
DecimalValue(s) ==
    IF s = <<>> THEN 0 ELSE 10 * DecimalValue(SubSeq(s, 1, Len(s) - 1)) + DigitValue(s[Len(s)])

\* str::parse::<u32>().ok() and str::parse::<f32>().ok(), on the texts of the
\* model: a non-empty run of decimal digits is its value, anything else fails.
parse_number(s) ==
    IF s # <<>> /\ \A i \in 1..Len(s) : IsDigit(s[i]) THEN Some(DecimalValue(s)) ELSE None

\* fs::read_to_string(..).ok().and_then(|s| s.trim().parse::<f32>().ok()).map(|t| t / 1000.0)
read_milli(file) ==
    LET parsed == IF file.some THEN parse_number(trim(file.v)) ELSE None
    IN  IF parsed.some THEN Some(Frac(parsed.v, 1000)) ELSE None

\* fs::read_to_string(..).ok().and_then(|s| s.trim().parse::<u32>().ok())
read_u32(file) ==
    IF file.some THEN parse_number(trim(file.v)) ELSE None

\* fs::read_to_string(path.join("name")).ok().map(|s| s.trim().to_string()).unwrap_or_default()
read_name(file) == IF file.some THEN trim(file.v) ELSE <<>>

Text_coretemp == <<"c", "o", "r", "e", "t", "e", "m", "p">>
Text_k10temp == <<"k", "1", "0", "t", "e", "m", "p">>
Text_cpu == <<"c", "p", "u">>
Text_acpitz == <<"a", "c", "p", "i", "t", "z">>
Text_board == <<"b", "o", "a", "r", "d">>

is_cpu_sensor(name) ==
    contains(name, Text_coretemp) \/ contains(name, Text_k10temp) \/ contains(name, Text_cpu)
is_board_sensor(name) == contains(name, Text_acpitz) \/ contains(name, Text_board)

NoSensors == [cpu_temp |-> None, motherboard_temp |-> None, cpu_fan |-> None, cpu_voltage |-> None]

\* A loop body that keeps the CPU temperature an earlier entry gave when this
\* entry's cannot be read.
scan_entry_KeepsReadableTemp(acc, entry) ==
    LET name == read_name(entry.name)
        temp == read_milli(entry.temp1_input)
    IN  [cpu_temp |-> IF is_cpu_sensor(name) /\ temp.some THEN temp ELSE acc.cpu_temp,
         motherboard_temp |->
             IF is_board_sensor(name) THEN read_milli(entry.temp1_input) ELSE acc.motherboard_temp,
         cpu_fan |-> read_u32(entry.fan1_input),
         cpu_voltage |-> read_milli(entry.in1_input)]

\* A loop body that keeps the fan and voltage an earlier entry gave when this
\* entry gives none.
scan_entry_KeepsEarlierFan(acc, entry) ==
    LET name == read_name(entry.name)
        fan == read_u32(entry.fan1_input)
        volt == read_milli(entry.in1_input)
    IN  [cpu_temp |-> IF is_cpu_sensor(name) THEN read_milli(entry.temp1_input) ELSE acc.cpu_temp,
         motherboard_temp |->
             IF is_board_sensor(name) THEN read_milli(entry.temp1_input) ELSE acc.motherboard_temp,
         cpu_fan |-> IF fan.some THEN fan ELSE acc.cpu_fan,
         cpu_voltage |-> IF volt.some THEN volt ELSE acc.cpu_voltage]

\* Lines 515-546: the body of the loop, for one entry of the directory.
scan_entry(acc, entry) ==
    LET name == read_name(entry.name)
    IN  [cpu_temp |-> IF is_cpu_sensor(name) THEN read_milli(entry.temp1_input) ELSE acc.cpu_temp,
         motherboard_temp |->
             IF is_board_sensor(name) THEN read_milli(entry.temp1_input) ELSE acc.motherboard_temp,
         cpu_fan |-> read_u32(entry.fan1_input),
         cpu_voltage |-> read_milli(entry.in1_input)]

\* Lines 513-548: the loop over the entries, when read_dir succeeds.
RECURSIVE scan_entries(_, _)
scan_entries(entries, n) ==
    IF n = 0 THEN NoSensors ELSE scan_entry(scan_entries(entries, n - 1), entries[n])

scan_hwmon(dir) ==
    IF dir.readable THEN scan_entries(dir.entries, Len(dir.entries)) ELSE NoSensors

\* A scanner with no fallback.
thermal_zone_fallback_never(cpu_temp, zone) == cpu_temp

\* Lines 551-556: if cpu_temp.is_none(), read the thermal zone.
thermal_zone_fallback(cpu_temp, zone) ==
    IF ~cpu_temp.some THEN read_milli(zone) ELSE cpu_temp

collect_hardware_sensors ==
    /\ sensPc = "start"
    /\ sensPc' = "done"
    /\ LET s == scan_hwmon(hwmon)
       IN  sensors' = [s EXCEPT !.cpu_temp = thermal_zone_fallback(s.cpu_temp, thermalZone)]
    /\ UNCHANGED <<hwmon, thermalZone, notSens>>

Text_nct6775 == <<"n", "c", "t", "6", "7", "7", "5", "\n">>
Text_45000 == <<"4", "5", "0", "0", "0", "\n">>
Text_50000 == <<"5", "0", "0", "0", "0", "\n">>
Text_1200 == <<"1", "2", "0", "0", "\n">>
Text_1050 == <<"1", "0", "5", "0", "\n">>
Text_NA == <<"N", "/", "A", "\n">>

HwmonEntries ==
    [name : {None, Some(Text_coretemp \o <<"\n">>), Some(Text_acpitz \o <<"\n">>), Some(Text_nct6775)},
     temp1_input : {None, Some(Text_45000)},
     fan1_input : {None, Some(Text_1200), Some(Text_NA)},
     in1_input : {None, Some(Text_1050)}]

\* The environment: a driver registers a sensor device before the scan.
HwmonRegisters ==
    /\ sensPc = "start"
    /\ hwmon.readable
    /\ Len(hwmon.entries) < MaxHwmon
    /\ \E e \in HwmonEntries : hwmon' = [hwmon EXCEPT !.entries = Append(@, e)]
    /\ UNCHANGED <<thermalZone, sensPc, sensors, notSens>>

SensInit ==
    /\ hwmon \in {[readable |-> FALSE, entries |-> <<>>], [readable |-> TRUE, entries |-> <<>>]}
    /\ thermalZone \in {None, Some(Text_50000), Some(Text_NA)}
    /\ sensPc = "start"
    /\ sensors = NoSensors

SensOff ==
    /\ hwmon = [readable |-> FALSE, entries |-> <<>>]
    /\ thermalZone = None
    /\ sensPc = "done"
    /\ sensors = NoSensors

SensNext == collect_hardware_sensors \/ HwmonRegisters

(***************************************************************************)
(* The server: get_stats                                                   *)
(*                                                                         *)
(* axum spawns one task per connection and the runtime's worker threads    *)
(* poll the tasks.  get_stats runs the Claims extractor and then           *)
(* collect_stats, an async fn that never awaits: once a worker polls the   *)
(* task it stays in it, thread::sleep included, until the response.  The   *)
(* worker thread is the caller of collect_network_advanced.                *)
(***************************************************************************)

NumReqs == 2

Reqs == 1..NumReqs
Workers == Callers
AuthHeaders == {"missing", "not_bearer", "bad_token", "valid_token"}

\* An extractor that takes any Bearer token without decoding it.
from_request_parts_NoValidation(header) ==
    IF header = "missing" \/ header = "not_bearer" THEN "Unauthorized"
    ELSE "Ok"

\* Claims::from_request_parts: the header must be there, start with "Bearer "
\* and hold a token that decodes.
from_request_parts(header) ==
    IF header = "missing" \/ header = "not_bearer" THEN "Unauthorized"
    ELSE IF header = "bad_token" THEN "Unauthorized"
    ELSE "Ok"

Polling(w, pc) == workerTask[w] # 0 /\ reqPc[workerTask[w]] = pc
Advance(w, pc) == reqPc' = [reqPc EXCEPT ![workerTask[w]] = pc]

\* A client sends GET /api/stats; requests are numbered as they arrive.
SrvRequest(r) ==
    /\ reqPc[r] = "unsent"
    /\ \A q \in Reqs : q < r => reqPc[q] # "unsent"
    /\ \E h \in AuthHeaders : reqAuth' = [reqAuth EXCEPT ![r] = h]
    /\ reqPc' = [reqPc EXCEPT ![r] = "queued"]
    /\ UNCHANGED <<workerTask, netVars, probeVars>>

\* A free worker thread starts polling a task.
SrvPoll(w, r) ==
    /\ workerTask[w] = 0
    /\ reqPc[r] = "queued"
    /\ workerTask' = [workerTask EXCEPT ![w] = r]
    /\ reqPc' = [reqPc EXCEPT ![r] = "extract"]
    /\ UNCHANGED <<reqAuth, netVars, probeVars>>

\* The extractor: 401 and the task ends, or the handler body starts.
SrvExtract(w) ==
    /\ Polling(w, "extract")
    /\ IF from_request_parts(reqAuth[workerTask[w]]) = "Ok"
       THEN Advance(w, "refresh_all") /\ UNCHANGED workerTask
       ELSE Advance(w, "rejected") /\ workerTask' = [workerTask EXCEPT ![w] = 0]
    /\ UNCHANGED <<reqAuth, netVars, probeVars>>

\* collect_stats lines 141-142: System::new_all(), sys.refresh_all(); the
\* thread then enters thread::sleep.
SrvRefreshAll(w) ==
    /\ Polling(w, "refresh_all")
    /\ Advance(w, "settle")
    /\ UNCHANGED <<reqAuth, workerTask, netVars, probeVars>>

\* Line 143: thread::sleep(500 ms) returns.
SrvSettle(w) ==
    /\ Polling(w, "settle")
    /\ Advance(w, "refresh_cpu")
    /\ UNCHANGED <<reqAuth, workerTask, netVars, probeVars>>

\* Line 144: sys.refresh_cpu()
SrvRefreshCpu(w) ==
    /\ Polling(w, "refresh_cpu")
    /\ Advance(w, "read_usage")
    /\ UNCHANGED <<reqAuth, workerTask, netVars, probeVars>>

\* Lines 147-202: the CPU usage is read; memory, GPU, processes and disks follow.
SrvReadUsage(w) ==
    /\ Polling(w, "read_usage")
    /\ Advance(w, "probes")
    /\ UNCHANGED <<reqAuth, workerTask, netVars, probeVars>>

\* Line 205: collect_network_advanced starts ...
SrvNetworkBegin(w) ==
    /\ Polling(w, "probes")
    /\ Advance(w, "network")
    /\ NetEnumerate(w)
    /\ UNCHANGED <<reqAuth, workerTask, probeVars>>

\* ... and goes on, on this thread.
SrvNetworkStep(w) ==
    /\ Polling(w, "network")
    /\ (NetLoad(w) \/ NetCompute(w) \/ NetStoreCounters(w) \/ NetStoreTime(w))
    /\ UNCHANGED <<srvVars, probeVars>>

\* Lines 208-234 and main.rs line 99: sensors, battery, the Json response.
\* The locals of the call end with it.
SrvRespond(w) ==
    /\ Polling(w, "network")
    /\ netPc[w] = "returned"
    /\ Advance(w, "responded")
    /\ workerTask' = [workerTask EXCEPT ![w] = 0]
    /\ netPc' = [netPc EXCEPT ![w] = "idle"]
    /\ netLocal' = [netLocal EXCEPT ![w] = NoLocals]
    /\ netOut' = [netOut EXCEPT ![w] = <<ZeroRate, ZeroRate>>]
    /\ UNCHANGED <<reqAuth, netIfaces, clock, overflowChecks, LAST_NETWORK_DATA, netCalls, probeVars>>

SrvInit ==
    /\ reqPc = [r \in Reqs |-> "unsent"]
    /\ reqAuth = [r \in Reqs |-> "missing"]
    /\ workerTask = [w \in Workers |-> 0]

SrvOff ==
    /\ reqPc = [r \in Reqs |-> "unsent"]
    /\ reqAuth = [r \in Reqs |-> "missing"]
    /\ workerTask = [w \in Workers |-> 0]

(***************************************************************************)
(* The AMD clock table: collect_amd_gpu reads pp_dpm_sclk                   *)
(*                                                                         *)
(* The driver writes one line per level, "<index>: <freq><unit>", and marks *)
(* the level in use with " *".                                             *)
(***************************************************************************)

MaxLevels == 2

\* The pieces of s between the separators, empty ones included.
RECURSIVE split_on(_, _, _)
split_on(s, seps, piece) ==
    IF s = <<>> THEN <<piece>>
    ELSE IF s[1] \in seps THEN <<piece>> \o split_on(Tail(s), seps, <<>>)
    ELSE split_on(Tail(s), seps, Append(piece, s[1]))

RECURSIVE non_empty(_)
non_empty(pieces) ==
    IF pieces = <<>> THEN <<>>
    ELSE IF Head(pieces) = <<>> THEN non_empty(Tail(pieces))
    ELSE <<Head(pieces)>> \o non_empty(Tail(pieces))

\* str::lines: the text between line feeds, without a last empty line.
lines(s) ==
    LET pieces == split_on(s, {"\n"}, <<>>)
    IN  IF pieces[Len(pieces)] = <<>> THEN SubSeq(pieces, 1, Len(pieces) - 1) ELSE pieces

\* str::split_whitespace
split_whitespace(s) == non_empty(split_on(s, Whitespace, <<>>))

\* str::trim_end_matches(char): every trailing repetition of ch is removed.
RECURSIVE trim_end_matches(_, _)
trim_end_matches(s, ch) ==
    IF s # <<>> /\ s[Len(s)] = ch THEN trim_end_matches(SubSeq(s, 1, Len(s) - 1), ch) ELSE s

\* Lines 343-353: the closure of filter_map, for one line of the file.
active_clock(line) ==
    LET parts == split_whitespace(line)
    IN  IF Len(parts) >= 2 /\ contains(line, <<"*">>)
        THEN parse_number(
                 trim_end_matches(trim_end_matches(trim_end_matches(parts[2], "M"), "H"), "z"))
        ELSE None

\* filter_map(..).next(): the first line that yields a value.
RECURSIVE first_clock(_)
first_clock(ls) ==
    IF ls = <<>> THEN None
    ELSE IF active_clock(Head(ls)).some THEN active_clock(Head(ls))
    ELSE first_clock(Tail(ls))

\* Lines 339-357: fs::read_to_string(pp_dpm_sclk).ok().and_then(..)
parse_pp_dpm_sclk(file) == IF file.some THEN first_clock(lines(file.v)) ELSE None

collect_amd_clock ==
    /\ sclkPc = "start"
    /\ sclkPc' = "done"
    /\ core_clock_mhz' = parse_pp_dpm_sclk(pp_dpm_sclk)
    /\ UNCHANGED <<sclkTable, pp_dpm_sclk, notSclk>>

\* The levels a driver lists, and the text it writes for them.
ClockUnits == {<<>>, <<"M">>, <<"M", "h", "z">>, <<"M", "H", "z">>}
ClockFreqs == {<<"3", "0", "0">>, <<"1", "2", "0", "0">>}
ClockLevels == [freq : ClockFreqs, unit : ClockUnits, active : BOOLEAN]
ClockTables == UNION {[1..n -> ClockLevels] : n \in 0..MaxLevels}

render_level(i, level) ==
    <<Digits[i], ":", " ">> \o level.freq \o level.unit
        \o (IF level.active THEN <<" ", "*">> ELSE <<>>) \o <<"\n">>

RECURSIVE render_table(_, _)
render_table(table, n) ==
    IF n = 0 THEN <<>> ELSE render_table(table, n - 1) \o render_level(n, table[n])

SclkInit ==
    /\ sclkTable \in ClockTables
    /\ pp_dpm_sclk \in {None, Some(render_table(sclkTable, Len(sclkTable)))}
    /\ sclkPc = "start"
    /\ core_clock_mhz = None

SclkOff ==
    /\ sclkTable = <<>>
    /\ pp_dpm_sclk = None
    /\ sclkPc = "done"
    /\ core_clock_mhz = None

(***************************************************************************)
(* The battery: collect_battery_info                                       *)
(***************************************************************************)

MaxBatteries == 2

BatteryStates == {"Unknown", "Charging", "Discharging", "Empty", "Full"}

\* battery.time_to_empty(), in seconds
TimesToEmpty == {None, Some(90), Some(3600)}

\* What the iterator of batteries yields: an error, or a battery.
BatteryErr ==
    [ok |-> FALSE, state |-> "Unknown", time_to_empty |-> None,
     state_of_charge |-> Frac(0, 1), state_of_health |-> Frac(0, 1)]
Batteries ==
    {BatteryErr} \cup
    [ok : {TRUE}, state : BatteryStates, time_to_empty : TimesToEmpty,
     state_of_charge : {Frac(1, 2), Frac(1, 1)}, state_of_health : {Frac(4, 5)}]

\* matches!(battery.state(), State::Charging | State::Full)
is_charging(state) == state \in {"Charging", "Full"}

\* A time remaining computed whatever the state.
time_remaining_minutes_unconditional(charging, time_to_empty) ==
    IF time_to_empty.some THEN Some(time_to_empty.v \div 60) ELSE None

\* if is_charging { None } else { battery.time_to_empty().map(|t| t.value as i64 / 60) }
time_remaining_minutes(charging, time_to_empty) ==
    IF charging THEN None
    ELSE IF time_to_empty.some THEN Some(time_to_empty.v \div 60) ELSE None

BatteryInfo(b) ==
    [percentage |-> FMul(b.state_of_charge, Frac(100, 1)),
     is_charging |-> is_charging(b.state),
     time_remaining_minutes |-> time_remaining_minutes(is_charging(b.state), b.time_to_empty),
     health_percent |-> FMul(b.state_of_health, Frac(100, 1))]

\* BatteryManager::new().ok()?  manager.batteries().ok()?  batteries.next()?.ok()?
collect_battery_info(m) ==
    IF m.manager # "Ok" THEN None
    ELSE IF m.list # "Ok" THEN None
    ELSE IF Len(m.batteries) = 0 THEN None
    ELSE IF ~m.batteries[1].ok THEN None
    ELSE Some(BatteryInfo(m.batteries[1]))

BattNext ==
    /\ battPc = "start"
    /\ battPc' = "done"
    /\ battery' = collect_battery_info(batteryManager)
    /\ UNCHANGED <<batteryManager, notBatt>>

BatteryManagers ==
    {[manager |-> "Err", list |-> "Err", batteries |-> <<>>],
     [manager |-> "Ok", list |-> "Err", batteries |-> <<>>]} \cup
    {[manager |-> "Ok", list |-> "Ok", batteries |-> bs] :
        bs \in UNION {[1..n -> Batteries] : n \in 0..MaxBatteries}}

BattInit ==
    /\ batteryManager \in BatteryManagers
    /\ battPc = "start"
    /\ battery = None

BattOff ==
    /\ batteryManager = [manager |-> "Err", list |-> "Err", batteries |-> <<>>]
    /\ battPc = "done"
    /\ battery = None

(***************************************************************************)
(* collect_stats, statement by statement                                   *)
(*                                                                         *)
(* collect_stats returns a SystemStats, not a Result: System::new_all,     *)
(* refresh_all, processes() and total_memory() hand back no error, and a   *)
(* process table or a memory reading the OS cannot serve comes back empty  *)
(* or 0.  Each field of the snapshot is "value", or "empty" for None, an   *)
(* empty list or 0.                                                        *)
(***************************************************************************)

Sources == {"os", "gpu", "disks", "network", "sensors", "battery"}
Probes == Sources \ {"os"}

\* An order that reads the usage before the second refresh.
CollectSteps_ReadBeforeSecondRefresh ==
    <<"refresh_all", "sleep", "read_usage", "refresh_cpu", "memory", "gpu", "processes",
      "disks", "network", "sensors", "battery", "return">>

\* The statements of collect_stats in program order.
CollectSteps ==
    <<"refresh_all", "sleep", "refresh_cpu", "read_usage", "memory", "gpu", "processes",
      "disks", "network", "sensors", "battery", "return">>

Statement == IF collectPc <= Len(CollectSteps) THEN CollectSteps[collectPc] ELSE "returned"

NoSnapshot ==
    [kind |-> "running", cpu_usage |-> <<>>, memory |-> "unset", processes |-> "unset",
     gpu |-> "unset", disks |-> "unset", network |-> "unset", sensors |-> "unset",
     battery |-> "unset"]

\* What a source yields: its value, or None / an empty list / 0.
Yield(src) == IF sources[src] THEN "value" ELSE "empty"

\* A call on the System object or the clock.
SysCall(name) ==
    /\ Statement = name
    /\ collectPc' = collectPc + 1
    /\ sysEvents' = Append(sysEvents, name)

\* Lines 141-142: System::new_all(); sys.refresh_all()
CollectRefreshAll ==
    /\ SysCall("refresh_all")
    /\ UNCHANGED <<sources, snapshot, notCollect>>

\* Line 143: thread::sleep(500 ms)
CollectSleep ==
    /\ SysCall("sleep")
    /\ UNCHANGED <<sources, snapshot, notCollect>>

\* Line 144: sys.refresh_cpu()
CollectRefreshCpu ==
    /\ SysCall("refresh_cpu")
    /\ UNCHANGED <<sources, snapshot, notCollect>>

\* Lines 147-155: cpu.cpu_usage() of every core; the snapshot's value is kept
\* with the calls that came before the read.
CollectReadUsage ==
    /\ SysCall("read_usage")
    /\ snapshot' = [snapshot EXCEPT !.cpu_usage = sysEvents]
    /\ UNCHANGED <<sources, notCollect>>

\* Lines 168-174: sys.total_memory(), sys.used_memory()
CollectMemory ==
    /\ Statement = "memory"
    /\ collectPc' = collectPc + 1
    /\ snapshot' = [snapshot EXCEPT !.memory = Yield("os")]
    /\ UNCHANGED <<sources, sysEvents, notCollect>>

\* Line 180: collect_process_info(&sys)
CollectProcesses ==
    /\ Statement = "processes"
    /\ collectPc' = collectPc + 1
    /\ snapshot' = [snapshot EXCEPT !.processes = Yield("os")]
    /\ UNCHANGED <<sources, sysEvents, notCollect>>

\* Lines 177, 183-202, 205, 208, 211: the other probes.
CollectProbe(src) ==
    /\ Statement = src
    /\ collectPc' = collectPc + 1
    /\ snapshot' = [snapshot EXCEPT ![src] = Yield(src)]
    /\ UNCHANGED <<sources, sysEvents, notCollect>>

\* Lines 213-234: the SystemStats is built and returned.
CollectReturn ==
    /\ Statement = "return"
    /\ collectPc' = collectPc + 1
    /\ snapshot' = [snapshot EXCEPT !.kind = "snapshot"]
    /\ UNCHANGED <<sources, sysEvents, notCollect>>

CollectInit ==
    /\ sources \in [Sources -> BOOLEAN]
    /\ collectPc = 1
    /\ sysEvents = <<>>
    /\ snapshot = NoSnapshot

CollectOff ==
    /\ sources = [src \in Sources |-> FALSE]
    /\ collectPc = 1
    /\ sysEvents = <<>>
    /\ snapshot = NoSnapshot

(***************************************************************************)
(* Specifications: one per probe, the other probes at rest                 *)
(***************************************************************************)

InitGpu == GpuInit /\ ProcOff /\ NetOff /\ ResOff /\ SensOff /\ SrvOff /\ BattOff /\ CollectOff /\ SclkOff
NextGpu == GpuNext
SpecGpu == InitGpu /\ [][NextGpu]_vars

InitProc == ProcInit /\ GpuOff /\ NetOff /\ ResOff /\ SensOff /\ SrvOff /\ BattOff /\ CollectOff /\ SclkOff
NextProc == ProcNext
SpecProc == InitProc /\ [][NextProc]_vars

\* Calls of collect_network_advanced one after the other, from one thread.
InitNet == NetInit /\ GpuOff /\ ProcOff /\ ResOff /\ SensOff /\ SrvOff /\ BattOff /\ CollectOff /\ SclkOff
NextNet ==
    \/ NetEnumerate(1) /\ UNCHANGED notNet
    \/ NetLoad(1) /\ UNCHANGED notNet
    \/ NetCompute(1) /\ UNCHANGED notNet
    \/ NetStoreCounters(1) /\ UNCHANGED notNet
    \/ NetStoreTime(1) /\ UNCHANGED notNet
    \/ NetTraffic
    \/ Tick
SpecNet == InitNet /\ [][NextNet]_vars

\* Calls one after the other, while interfaces come and go.
NextNetReset ==
    \/ NetEnumerate(1) /\ UNCHANGED notNet
    \/ NetLoad(1) /\ UNCHANGED notNet
    \/ NetCompute(1) /\ UNCHANGED notNet
    \/ NetStoreCounters(1) /\ UNCHANGED notNet
    \/ NetStoreTime(1) /\ UNCHANGED notNet
    \/ NetTraffic
    \/ NetCounterReset
    \/ Tick
SpecNetReset == InitNet /\ [][NextNetReset]_vars

\* Calls of collect_network_advanced from several threads at once.
NextNetConc ==
    \/ \E c \in Callers : NetEnumerate(c) /\ UNCHANGED notNet
    \/ \E c \in Callers : NetLoad(c) /\ UNCHANGED notNet
    \/ \E c \in Callers : NetCompute(c) /\ UNCHANGED notNet
    \/ \E c \in Callers : NetStoreCounters(c) /\ UNCHANGED notNet
    \/ \E c \in Callers : NetStoreTime(c) /\ UNCHANGED notNet
    \/ NetTraffic
    \/ Tick
SpecNetConc == InitNet /\ [][NextNetConc]_vars

InitRes == ResInit /\ GpuOff /\ ProcOff /\ NetOff /\ SensOff /\ SrvOff /\ BattOff /\ CollectOff /\ SclkOff
NextRes == ResNext
SpecRes == InitRes /\ [][NextRes]_vars

InitSens == SensInit /\ GpuOff /\ ProcOff /\ NetOff /\ ResOff /\ SrvOff /\ BattOff /\ CollectOff /\ SclkOff
NextSens == SensNext
SpecSens == InitSens /\ [][NextSens]_vars

InitSclk == SclkInit /\ GpuOff /\ ProcOff /\ NetOff /\ ResOff /\ SensOff /\ SrvOff /\ BattOff /\ CollectOff
NextSclk == collect_amd_clock
SpecSclk == InitSclk /\ [][NextSclk]_vars

InitBatt == BattInit /\ GpuOff /\ ProcOff /\ NetOff /\ ResOff /\ SensOff /\ SrvOff /\ CollectOff /\ SclkOff
NextBatt == BattNext
SpecBatt == InitBatt /\ [][NextBatt]_vars

\* One call of collect_stats.
InitCollect == CollectInit /\ GpuOff /\ ProcOff /\ NetOff /\ ResOff /\ SensOff /\ SrvOff /\ BattOff /\ SclkOff
NextCollect ==
    \/ CollectRefreshAll
    \/ CollectSleep
    \/ CollectRefreshCpu
    \/ CollectReadUsage
    \/ CollectMemory
    \/ CollectProcesses
    \/ \E src \in Probes : CollectProbe(src)
    \/ CollectReturn
SpecCollect == InitCollect /\ [][NextCollect]_vars

\* The server: requests to GET /api/stats handled by the worker threads, while
\* the interface counters stand still.
Init == SrvInit /\ NetInit /\ GpuOff /\ ProcOff /\ ResOff /\ SensOff /\ BattOff /\ CollectOff /\ SclkOff
Next ==
    \/ \E r \in Reqs : SrvRequest(r)
    \/ \E w \in Workers, r \in Reqs : SrvPoll(w, r)
    \/ \E w \in Workers : SrvExtract(w)
    \/ \E w \in Workers : SrvRefreshAll(w)
    \/ \E w \in Workers : SrvSettle(w)
    \/ \E w \in Workers : SrvRefreshCpu(w)
    \/ \E w \in Workers : SrvReadUsage(w)
    \/ \E w \in Workers : SrvNetworkBegin(w)
    \/ \E w \in Workers : SrvNetworkStep(w)
    \/ \E w \in Workers : SrvRespond(w)
    \/ Tick
Spec == Init /\ [][Next]_vars

(***************************************************************************)
(* Claims                                                                  *)
(***************************************************************************)

ProbeOrder == <<"nvidia", "amd", "intel">>
ProbeFailed(i) == i <= Len(gpuProbes) /\ gpuProbes[i].info = "None"

\* C1: collect_gpu_info returns the result of the first probe that succeeds in
\* the order NVIDIA, AMD, Intel, and consults no probe after a success: with
\* NVIDIA failed and the AMD device path present the result is AMD, the result
\* is Intel only if NVIDIA and AMD both failed, and it is None exactly when
\* all three probes failed.
C1_ProbeOrder ==
    gpuPc = "done" =>
        /\ Len(gpuProbes) \in 1..3
        /\ \A i \in 1..Len(gpuProbes) : gpuProbes[i].probe = ProbeOrder[i]
        /\ \A i \in 1..(Len(gpuProbes) - 1) : gpuProbes[i].info = "None"
        /\ gpu = gpuProbes[Len(gpuProbes)].info
        /\ (gpuProbes[1].info = "None") <=> (nvml # "Ok")
        /\ (ProbeFailed(1) /\ gpuProbes[2].saw = "device") => gpu = "AMD"
        /\ gpu = "Intel" => (ProbeFailed(1) /\ ProbeFailed(2))
        /\ gpu = "None" <=> (ProbeFailed(1) /\ ProbeFailed(2) /\ ProbeFailed(3))

C1_Witness ==
    /\ gpuPc = "done"
    /\ nvml # "Ok"
    /\ gpuProbes[2].saw = "device"
    /\ gpu = "AMD"

GeF32(a, b) == ~a.nan /\ ~b.nan /\ a.v >= b.v

\* C2: for every process table, the list collect_process_info returns has at
\* most 10 entries and is sorted non-increasing by cpu_usage.
C2_Top10Sorted ==
    procPc = "returned" =>
        /\ Len(processes) <= 10
        /\ \A i \in 1..(Len(processes) - 1) :
              GeF32(processes[i].cpu_usage, processes[i + 1].cpu_usage)

C2_Witness ==
    /\ procPc = "returned"
    /\ Len(processTable) > 10
    /\ \E i \in 1..(Len(processTable) - 1) : processTable[i].v < processTable[i + 1].v
    /\ Len(processes) = 10
    /\ processes[1].cpu_usage # processes[10].cpu_usage

\* C9: sorting the process table never aborts the collection: with a
\* not-a-number cpu_usage in the table the comparator still yields an order and
\* collect_process_info returns a list instead of panicking.
C9_SortNeverPanics == procPc # "panicked"

RateIs(r, k) == ~r.wrapped /\ r.d # 0 /\ r.n = k * r.d
RateNonNegative(r) == r.wrapped \/ (r.n >= 0 /\ r.d > 0) \/ (r.n <= 0 /\ r.d < 0)
RateFinite(r) == r.d # 0

\* C3: the first call of collect_network_advanced on fresh state reports
\* download_speed_mbps = 0 and upload_speed_mbps = 0 and stores the totals it
\* computed and its timestamp as the baseline.
C3_FirstCallZeroAndStores ==
    \A c \in Callers :
        (netCalls = 1 /\ netPc[c] = "returned") =>
            /\ ~netLocal[c].last.some
            /\ RateIs(netOut[c][1], 0) /\ RateIs(netOut[c][2], 0)
            /\ LAST_NETWORK_DATA = Baseline(netLocal[c].total_received,
                                            netLocal[c].total_transmitted,
                                            netLocal[c].now)

C3_Witness ==
    \E c \in Callers :
        /\ netCalls = 1 /\ netPc[c] = "returned"
        /\ LAST_NETWORK_DATA.some
        /\ LAST_NETWORK_DATA.rx > 0
        /\ LAST_NETWORK_DATA.time > 0

\* C4: with a baseline, the rates are the difference of the summed byte
\* counters of all interfaces over the elapsed seconds, in megabits per second:
\* with baseline (rx = 0, tx = 0) and a call 1 second later that observes
\* rx = 1,000,000 bytes and tx = 500,000 bytes, download_speed_mbps is 8.0 and
\* upload_speed_mbps is 4.0.
C4_EightAndFourMbps ==
    \A c \in Callers :
        ( /\ netPc[c] = "returned"
          /\ netLocal[c].last.some
          /\ netLocal[c].last.rx = 0 /\ netLocal[c].last.tx = 0
          /\ netLocal[c].now - netLocal[c].last.time = 1
          /\ netLocal[c].rx_bytes = 1000000
          /\ netLocal[c].tx_bytes = 500000 )
        => (RateIs(netOut[c][1], 8) /\ RateIs(netOut[c][2], 4))

\* C5: under any interleaving of parallel collect calls, with counters that
\* never decrease, no call crashes and every reported rate is non-negative and
\* finite.
C5_ParallelCallsSafe ==
    \A c \in Callers :
        /\ netPc[c] # "panicked"
        /\ RateNonNegative(netOut[c][1]) /\ RateFinite(netOut[c][1])
        /\ RateNonNegative(netOut[c][2]) /\ RateFinite(netOut[c][2])

InReadModifyWrite(c) == netPc[c] \in {"loaded", "store", "store_time"}

\* C6: no two collect calls are ever at once between reading LAST_NETWORK_DATA
\* and writing it back.
C6_ReadModifyWriteSerialized ==
    \A c, d \in Callers : (InReadModifyWrite(c) /\ InReadModifyWrite(d)) => c = d

FIsZero(a) == a.d # 0 /\ a.n = 0

\* C7: every usage percentage is used / total * 100 and exactly 0 when the
\* total is 0: for each disk, with used = total - available, and for memory
\* (50.0 for a total of 16 GB with 8 GB used).
C7_UsagePercent ==
    resPc = "done" =>
        /\ memTotal = 0 => FIsZero(memory_usage_percent)
        /\ memTotal > 0 =>
              /\ memory_usage_percent.d > 0
              /\ memory_usage_percent.n * memTotal = memUsed * 100 * memory_usage_percent.d
        /\ (memTotal = 16 * 1024 /\ memUsed = 8 * 1024) => memory_usage_percent = [n |-> 50, d |-> 1]
        /\ Len(disk_infos) = Len(diskSpaces)
        /\ \A i \in 1..Len(diskSpaces) :
              LET used == diskSpaces[i].total - diskSpaces[i].available
                  info == disk_infos[i]
              IN  /\ info.used_gb.d > 0
                  /\ info.used_gb.n * 1024 = used * info.used_gb.d
                  /\ diskSpaces[i].total = 0 =>
                        (FIsZero(info.total_gb) /\ FIsZero(info.usage_percent))
                  /\ diskSpaces[i].total > 0 =>
                        /\ info.usage_percent.d > 0
                        /\ info.usage_percent.n * diskSpaces[i].total
                              = used * 100 * info.usage_percent.d

C7_Witness ==
    /\ resPc = "done"
    /\ memTotal = 16 * 1024 /\ memUsed = 8 * 1024
    /\ \E i \in 1..Len(diskSpaces) : diskSpaces[i].total = 0
    /\ \E i \in 1..Len(diskSpaces) :
          diskSpaces[i].available > 0 /\ diskSpaces[i].available < diskSpaces[i].total

\* C8, as claimed: with zero entries in the sensor registry, all four sensor
\* fields are None, whatever else the file system contains.
C8_EmptyRegistryAllNone ==
    (sensPc = "done" /\ hwmon.readable /\ hwmon.entries = <<>>) => sensors = NoSensors

\* C8, amended: with zero entries in the sensor registry,
\* collect_hardware_sensors returns with motherboard_temp, cpu_fan_rpm and
\* cpu_voltage None, and cpu_temp is None unless the thermal-zone file reads
\* as a number, and then it is that number / 1000.
C8_EmptyRegistryFallsBack ==
    (sensPc = "done" /\ hwmon.readable /\ hwmon.entries = <<>>) =>
        /\ sensors.motherboard_temp = None
        /\ sensors.cpu_fan = None
        /\ sensors.cpu_voltage = None
        /\ sensors.cpu_temp =
              IF thermalZone = Some(Text_50000) THEN Some([n |-> 50, d |-> 1]) ELSE None

C8_Witness ==
    /\ sensPc = "done"
    /\ hwmon.readable
    /\ hwmon.entries = <<>>
    /\ sensors.cpu_temp.some

\* C10: while a request is inside the settle wait of collect_stats, the
\* worker thread that accepted it is not held by it, and can poll other
\* requests.
C10_SettleOffWorkerThread ==
    \A w \in Workers : ~Polling(w, "settle")

\* C11: every call after the first overwrites the baseline with its own totals
\* and timestamp, also a call whose elapsed time since the baseline is 0 and
\* which reports (0, 0).
C11_LaterCallOverwritesBaseline ==
    (netPc[1] = "returned" /\ netLocal[1].last.some) =>
        LAST_NETWORK_DATA = Baseline(netLocal[1].total_received,
                                     netLocal[1].total_transmitted,
                                     netLocal[1].now)

\* C12: a call that finds a baseline and an elapsed time of 0 reports (0, 0)
\* for both rates, and no rate it reports is the result of a division by zero.
C12_ZeroElapsedReportsZero ==
    (netPc[1] = "returned" /\ netLocal[1].last.some
        /\ duration_since(netLocal[1].now, netLocal[1].last.time) = 0) =>
            /\ RateIs(netOut[1][1], 0) /\ RateFinite(netOut[1][1])
            /\ RateIs(netOut[1][2], 0) /\ RateFinite(netOut[1][2])

C12_Witness ==
    /\ netPc[1] = "returned" /\ netLocal[1].last.some
    /\ netLocal[1].now = netLocal[1].last.time
    /\ netLocal[1].total_received > netLocal[1].last.rx
    /\ RateIs(netOut[1][1], 0)

\* C13: a failure of the OS process-table or memory enumeration makes
\* collect_stats end as a failed operation, an error outcome that is not a
\* snapshot, while a failed or absent GPU, disk list, network, sensor or
\* battery source never aborts the call and leaves its field None, empty or 0.
C13_CatastrophicIsError ==
    Statement = "returned" =>
        /\ (snapshot.kind = "error") <=> ~sources["os"]
        /\ sources["os"] =>
              /\ snapshot.kind = "snapshot"
              /\ \A src \in Probes : ~sources[src] => snapshot[src] = "empty"

SecondRefreshDone == <<"refresh_all", "sleep", "refresh_cpu">>

\* C15: within one call of collect_stats the first refresh, the settle wait
\* and the second refresh happen in that order before any read of the CPU
\* usage, and the usage placed in the snapshot was read after the second
\* refresh.
C15_UsageReadAfterSecondRefresh ==
    /\ \A i \in 1..Len(sysEvents) :
          sysEvents[i] = "read_usage" => SubSeq(sysEvents, 1, i - 1) = SecondRefreshDone
    /\ snapshot.cpu_usage # <<>> => snapshot.cpu_usage = SecondRefreshDone

C15_Witness ==
    /\ snapshot.kind = "snapshot"
    /\ snapshot.cpu_usage = SecondRefreshDone
    /\ sysEvents = Append(SecondRefreshDone, "read_usage")

\* C14: whenever the BatteryInfo returned has is_charging true (state Charging
\* or Full) its time_remaining_minutes is None; a time remaining is reported
\* only for a battery that is not charging; only the first battery reported is
\* used; and None is returned when there is no manager or no battery.
C14_NoTimeRemainingWhileCharging ==
    battPc = "done" =>
        /\ (battery.some /\ battery.v.is_charging) => ~battery.v.time_remaining_minutes.some
        /\ battery.some =>
              /\ batteryManager.manager = "Ok" /\ batteryManager.list = "Ok"
              /\ Len(batteryManager.batteries) > 0
              /\ batteryManager.batteries[1].ok
              /\ battery.v = BatteryInfo(batteryManager.batteries[1])
              /\ battery.v.is_charging <=>
                    batteryManager.batteries[1].state \in {"Charging", "Full"}
              /\ battery.v.time_remaining_minutes.some =>
                    batteryManager.batteries[1].state \notin {"Charging", "Full"}
        /\ (batteryManager.manager # "Ok" \/ batteryManager.list # "Ok"
                \/ Len(batteryManager.batteries) = 0) => ~battery.some

C14_Witness ==
    /\ battPc = "done"
    /\ battery.some /\ battery.v.is_charging
    /\ batteryManager.batteries[1].state = "Full"
    /\ batteryManager.batteries[1].time_to_empty.some
    /\ Len(batteryManager.batteries) = 2
    /\ batteryManager.batteries[2].state = "Discharging"
    /\ ~battery.v.time_remaining_minutes.some

Collecting == {"refresh_all", "settle", "refresh_cpu", "read_usage", "probes", "network", "responded"}

\* C16: a request to /api/stats with no Authorization header, a header that
\* is not a Bearer one, or a token that fails validation is rejected with 401
\* before any collection runs: it gets no snapshot and its rejection leaves
\* the network baseline as it was; only a request with a valid token starts
\* collect_stats.
C16_StatsAuthenticated ==
    [][\A r \in Reqs :
          /\ (reqPc'[r] # "unsent" /\ reqAuth'[r] # "valid_token") => reqPc'[r] \notin Collecting
          /\ (reqPc[r] = "extract" /\ reqPc'[r] # "extract" /\ reqAuth[r] # "valid_token") =>
                /\ reqPc'[r] = "rejected"
                /\ UNCHANGED <<LAST_NETWORK_DATA, netPc, netLocal, netOut, netCalls>>
          /\ reqPc'[r] \in Collecting => reqAuth'[r] = "valid_token"
          /\ reqPc'[r] = "rejected" => reqAuth'[r] # "valid_token"]_vars

C16_Witness ==
    \E r, q \in Reqs :
        /\ reqPc[q] = "responded" /\ reqAuth[q] = "valid_token"
        /\ reqPc[r] = "rejected" /\ reqAuth[r] = "bad_token"
        /\ q < r
        /\ LAST_NETWORK_DATA.some
        /\ netCalls = 1

LastEntry == hwmon.entries[Len(hwmon.entries)]

\* C17: after the scan of a non-empty sensor registry, cpu_fan_rpm and
\* cpu_voltage are what the last entry enumerated yields, whatever its name:
\* None when its fan1_input (or in1_input) cannot be read or parsed, even if
\* an earlier entry gave a value.
C17_LastEntryGivesFanAndVoltage ==
    (sensPc = "done" /\ hwmon.readable /\ hwmon.entries # <<>>) =>
        /\ sensors.cpu_fan =
              IF LastEntry.fan1_input = Some(Text_1200) THEN Some(1200) ELSE None
        /\ sensors.cpu_voltage =
              IF LastEntry.in1_input = Some(Text_1050) THEN Some([n |-> 21, d |-> 20]) ELSE None

C17_Witness ==
    /\ sensPc = "done" /\ hwmon.readable /\ Len(hwmon.entries) = 2
    /\ hwmon.entries[1].name = Some(Text_coretemp \o <<"\n">>)
    /\ hwmon.entries[1].fan1_input = Some(Text_1200)
    /\ hwmon.entries[1].in1_input = Some(Text_1050)
    /\ hwmon.entries[2].name = Some(Text_nct6775)
    /\ hwmon.entries[2].fan1_input = Some(Text_NA)
    /\ hwmon.entries[2].in1_input = None
    /\ sensors.cpu_fan = None /\ sensors.cpu_voltage = None

\* The entries whose name classifies them as a CPU-temperature sensor, among
\* the names of HwmonEntries.
CpuClassified ==
    {i \in 1..Len(hwmon.entries) : hwmon.entries[i].name = Some(Text_coretemp \o <<"\n">>)}
LastCpuClassified == CHOOSE i \in CpuClassified : \A j \in CpuClassified : j <= i
ZoneTemp == IF thermalZone = Some(Text_50000) THEN Some([n |-> 50, d |-> 1]) ELSE None
EntryTemp(i) ==
    IF hwmon.entries[i].temp1_input = Some(Text_45000) THEN Some([n |-> 45, d |-> 1]) ELSE None

\* C19: the thermal-zone fallback gives cpu_temp exactly when no entry of the
\* registry was classified as a CPU-temperature sensor; when some entry was so
\* classified, cpu_temp is not taken from the thermal zone.
C19_FallbackOnlyWithoutCpuSensor ==
    (sensPc = "done" /\ hwmon.readable) =>
        IF CpuClassified = {} THEN sensors.cpu_temp = ZoneTemp
        ELSE sensors.cpu_temp \in {None, Some([n |-> 45, d |-> 1])}

\* C19, amended: the thermal-zone fallback gives cpu_temp exactly when cpu_temp
\* is None after the scan, that is when no entry was classified as a
\* CPU-temperature sensor or the temp1_input of the last entry so classified
\* could not be read or parsed; otherwise cpu_temp is that entry's value.
C19_FallbackWhenScanGaveNone ==
    (sensPc = "done" /\ hwmon.readable) =>
        sensors.cpu_temp =
            IF CpuClassified # {} /\ EntryTemp(LastCpuClassified).some
            THEN EntryTemp(LastCpuClassified)
            ELSE ZoneTemp

C19_Witness ==
    /\ sensPc = "done" /\ hwmon.readable
    /\ CpuClassified = {1, 2}
    /\ EntryTemp(1).some /\ ~EntryTemp(2).some
    /\ thermalZone = Some(Text_50000)
    /\ sensors.cpu_temp = Some([n |-> 50, d |-> 1])

ActiveLevels == {i \in 1..Len(sclkTable) : sclkTable[i].active}
FirstActive == CHOOSE i \in ActiveLevels : \A j \in ActiveLevels : i <= j

\* C18: the AMD clock-table parser returns the frequency of the line marked
\* active and tolerates a unit after the digits: when the active line reads
\* like "1: 300Mhz *" or "1: 300MHz *", core_clock_mhz is Some(300).
C18_ActiveClockWithUnit ==
    (sclkPc = "done" /\ pp_dpm_sclk.some /\ ActiveLevels # {}
        /\ sclkTable[FirstActive].unit \in {<<"M", "h", "z">>, <<"M", "H", "z">>}) =>
            core_clock_mhz = Some(DecimalValue(sclkTable[FirstActive].freq))

Numeric == \A i \in 1..Len(processTable) : ~processTable[i].nan
ReturnedPids == {processes[i].pid : i \in 1..Len(processes)}
\* p comes before q in the stable descending order of the table.
Before(p, q) ==
    \/ processTable[p].v > processTable[q].v
    \/ processTable[p].v = processTable[q].v /\ p < q

\* C20: for a process table of numeric usages, the list returned is the first
\* min(10, n) elements of the stable descending sort of the whole table by
\* cpu_usage: equal usages keep their enumeration order, and no omitted
\* process has a higher usage than a returned one.
C20_StableTop10 ==
    (procPc = "returned" /\ Numeric) =>
        /\ Len(processes) = Min(10, Len(processTable))
        /\ \A i \in 1..Len(processes) :
              /\ processes[i].pid \in 1..Len(processTable)
              /\ processes[i].cpu_usage = processTable[processes[i].pid]
        /\ \A i \in 1..(Len(processes) - 1) : Before(processes[i].pid, processes[i + 1].pid)
        /\ \A p \in (1..Len(processTable)) \ ReturnedPids :
              \A q \in ReturnedPids : Before(q, p) /\ processTable[p].v <= processTable[q].v

C20_Witness ==
    /\ procPc = "returned" /\ Numeric
    /\ Len(processTable) = 11
    /\ processTable[1].v = 0 /\ processTable[2].v = 5 /\ processTable[3].v = 5
    /\ processTable[10].v = 0 /\ processTable[11].v = 0
    /\ processes[1].pid = 2 /\ processes[2].pid = 3
    /\ processes[10].pid # 11
    /\ 11 \notin ReturnedPids

\* C21: with a file system that does not change during the call,
\* collect_gpu_info never returns vendor Intel: whenever the Intel probe's
\* conditions hold (card0 and card0/device exist) the AMD probe's only
\* condition holds too, and the AMD probe runs first.
C21_IntelUnreachable ==
    /\ collect_intel_gpu(sysfsDrm) = "Intel" => collect_amd_gpu(sysfsDrm) = "AMD"
    /\ ~drmChanged =>
          /\ gpu # "Intel"
          /\ \A i \in 1..Len(gpuProbes) : gpuProbes[i].info # "Intel"

C21_Witness ==
    /\ gpuPc = "done"
    /\ ~drmChanged
    /\ nvml = "DeviceErr"
    /\ sysfsDrm = "device"
    /\ collect_intel_gpu(sysfsDrm) = "Intel"
    /\ Len(gpuProbes) = 2
    /\ gpu = "AMD"

\* C22: in any sequence of calls that do not overlap, the subtraction of the
\* stored baseline from the current totals never underflows and both rates
\* reported are non-negative, also when the summed total went down between
\* two calls because an interface disappeared or its counter restarted.
C22_SequentialNeverUnderflows ==
    /\ netPc[1] # "panicked"
    /\ ~netOut[1][1].wrapped /\ ~netOut[1][2].wrapped
    /\ netOut[1][1].n >= 0 /\ netOut[1][2].n >= 0

====
